---- MODULE Spec2Model ----
(***************************************************************************)
(* Model of models/eval/eval.py: Eval.get_visual_features (the panoramic   *)
(* object-feature extraction) and Eval.spawn_threads / Eval.queue_tasks    *)
(* (the worker orchestration).                                             *)
(*                                                                         *)
(* Conventions.  Python indices are kept 0-based (the loop variable i      *)
(* counts 0, 1, ...); a TLA+ sequence is 1-based, so element i of a Python *)
(* list is s[i + 1].  Box coordinates are floats in the source; the model  *)
(* keeps them in half-pixel units (the integer 3 stands for 1.5 px), so    *)
(* that both integral and fractional coordinates occur.  Raw mask values   *)
(* and scores are kept in tenths (5 stands for 0.5).                       *)
(***************************************************************************)
EXTENDS Integers, Sequences, FiniteSets, TLC

\* Bounds of the model.
MaxViews == 2
MaxDet == 2
MaxCap == 2
MaxThreads == 3
MaxFiles == 2

VARIABLES
    \* ---- get_visual_features ----
    panoramic_boxes,   \* args.panoramic_boxes: the per-view cap table
    pc,                \* position in get_visual_features
    calls,             \* the collaborators invoked so far, in order
    geom_calls,        \* the invocations of calculate_angles, in order
    panorama_images,   \* local: images returned by create_panorama
    camera_infos,      \* local: camera infos returned by create_panorama
    images,            \* local: the packed batch
    detector_results,  \* local: output of region_detector
    i,                 \* local: loop index (0-based)
    object_features,   \* local: records assembled so far
    result,            \* what the caller receives
    \* ---- spawn_threads ----
    spc,               \* position in spawn_threads
    args,              \* num_threads, fast_epoch, shuffle
    files,             \* self.splits[self.args.eval_split]
    handles,           \* number of manager objects created so far
    task_queue,        \* [id, items]: the manager queue
    lock,              \* [id, holder]: the manager lock
    threads,           \* local list of started processes
    n,                 \* local: index of the start loop
    t,                 \* local: index of the join loop
    worker,            \* per process: its state, arguments and held task
    stats,             \* successes / failures recorded by the workers
    save_calls         \* number of invocations of save_results

gvf_vars == <<panoramic_boxes, pc, calls, geom_calls, panorama_images, camera_infos,
              images, detector_results, i, object_features, result>>
spawn_vars == <<spc, args, files, handles, task_queue, lock, threads, n, t, worker,
                stats, save_calls>>
vars == <<gvf_vars, spawn_vars>>

Min(a, b) == IF a <= b THEN a ELSE b
Max(a, b) == IF a >= b THEN a ELSE b

BoundedSeq(S, k) == UNION {[1..m -> S] : m \in 0..k}

(***************************************************************************)
(* Pure parts of the per-view assembly (eval.py lines 166-207).            *)
(***************************************************************************)

\* Mutants of the slice: one entry too many, and the last entries instead of
\* the first.
SliceOneMore(s, num) ==
    SubSeq(s, 1, Min(Len(s), Max(0, num + 1)))
SliceLast(s, num) ==
    IF num >= 0 THEN SubSeq(s, Len(s) - Min(num, Len(s)) + 1, Len(s))
    ELSE SubSeq(s, 1, Max(0, Len(s) + num))

\* s[:num] with Python's semantics: a negative bound counts from the end.
Slice(s, num) ==
    IF num >= 0 THEN SubSeq(s, 1, Min(num, Len(s)))
    ELSE SubSeq(s, 1, Max(0, Len(s) + num))

\* Mutant of the center: the midpoint rounded to the nearest pixel.
center_rounded(a, b) == (a + b + 2) \div 4

\* (a + b) // 2 of two coordinates given in half pixels; the result is a whole
\* number of pixels.  ((a/2 + b/2) // 2 = floor((a + b) / 4).)
center(a, b) == (a + b) \div 4

\* The pair of center arrays of lines 176-177.
center_coords(coordinates) ==
    << [j \in DOMAIN coordinates |-> center(coordinates[j][1], coordinates[j][3])],
       [j \in DOMAIN coordinates |-> center(coordinates[j][2], coordinates[j][4])] >>

\* scripts.geometry_utils.calculate_angles: an angle is kept as the term of
\* what it was computed from (axis, center, view angle of that axis).
calculate_angles(xs, ys, h_view_angle, v_view_angle) ==
    << [j \in DOMAIN xs |-> [axis |-> "h", center |-> xs[j], view_angle |-> h_view_angle]],
       [j \in DOMAIN ys |-> [axis |-> "v", center |-> ys[j], view_angle |-> v_view_angle]] >>

\* np.stack([h_angle, v_angle], 1): a K-by-2 array.
stack(h_angle, v_angle) ==
    [ncols |-> 2, rows |-> [j \in DOMAIN h_angle |-> <<h_angle[j], v_angle[j]>>]]

\* Mutant: the empty case built as a flat array, np.zeros((K,)).
boxes_angles_flat(coordinates, cam) ==
    IF Len(coordinates) > 0
    THEN LET c == center_coords(coordinates)
             a == calculate_angles(c[1], c[2], cam.h_view_angle, cam.v_view_angle)
         IN  stack(a[1], a[2])
    ELSE [ncols |-> 1, rows |-> <<>>]

\* Lines 174-189: the angles of all boxes of a view, before truncation.
boxes_angles(coordinates, cam) ==
    IF Len(coordinates) > 0
    THEN LET c == center_coords(coordinates)
             a == calculate_angles(c[1], c[2], cam.h_view_angle, cam.v_view_angle)
         IN  stack(a[1], a[2])
    ELSE [ncols |-> 2, rows |-> <<>>]

\* Mutant of the threshold: >= 0.5.
binarize_inclusive(masks) ==
    [j \in DOMAIN masks |-> [p \in DOMAIN masks[j] |-> masks[j][p] >= 5]]

\* (masks > 0.5), elementwise over the pixels of every mask (line 202).
binarize(masks) ==
    [j \in DOMAIN masks |-> [p \in DOMAIN masks[j] |-> masks[j][p] > 5]]

\* Lines 191-207: truncation and packaging of one view.
record(det, num_boxes, cam) ==
    LET angles == boxes_angles(det.boxes, cam)
        box_features == Slice(det.features, num_boxes)
    IN  [ box_features |-> box_features,
          roi_angles   |-> [angles EXCEPT !.rows = Slice(@, num_boxes)],
          boxes        |-> Slice(det.boxes, num_boxes),
          masks        |-> binarize(Slice(det.masks, num_boxes)),
          class_probs  |-> Slice(det.scores, num_boxes),
          class_labels |-> Slice(det.labels, num_boxes),
          camera_info  |-> cam,
          num_objects  |-> Len(box_features) ]

(***************************************************************************)
(* What the collaborators can hand back (create_panorama and the region    *)
(* detector are external; their outputs are drawn from these sets).        *)
(***************************************************************************)

\* Field-of-view pairs (h, v) a view can have.
FovList == << <<90, 60>>, <<60, 45>> >>

\* The camera infos of a panorama of k views: all views alike ("uniform") or
\* the field of view alternating between views ("mixed").
CameraInfos(k, profile) ==
    [v \in 1..k |->
        LET fov == IF profile = "uniform" THEN FovList[1] ELSE FovList[(v % 2) + 1]
        IN  [view |-> v - 1, h_view_angle |-> fov[1], v_view_angle |-> fov[2]]]

\* Boxes [x1, y1, x2, y2] in half pixels; <<2, 2, 4, 4>> is the box (1, 1, 2, 2).
BoxList == << <<2, 2, 4, 4>>, <<2, 2, 3, 6>>, <<5, 2, 6, 4>>,
              <<5, 3, 7, 6>>, <<0, 0, 0, 0>>, <<1, 0, 2, 3>> >>

\* Raw masks of two pixels, in tenths.
MaskList == << <<5, 6>>, <<4, 5>>, <<6, 4>>, <<0, 10>> >>

Variants == DOMAIN BoxList

Feat(v, j) == <<"feat", v - 1, j - 1>>
Label(v, j) == <<"label", v - 1, j - 1>>
\* Odd variants list the detections by descending score, even ones by ascending.
Score(c, j) == IF c % 2 = 1 THEN 10 - j ELSE j
Box(c, v, j) == BoxList[((c + v + j) % Len(BoxList)) + 1]
Mask(c, v, j) == MaskList[((c + v + j) % Len(MaskList)) + 1]

\* The detection group of view v with the given leading length of each array.
Group(c, v, len) ==
    [ features |-> [j \in 1..len.features |-> Feat(v, j)],
      boxes    |-> [j \in 1..len.boxes |-> Box(c, v, j)],
      scores   |-> [j \in 1..len.scores |-> Score(c, j)],
      labels   |-> [j \in 1..len.labels |-> Label(v, j)],
      masks    |-> [j \in 1..len.masks |-> Mask(c, v, j)] ]

ArrayNames == {"features", "scores", "labels", "masks"}

Parallel(K) == [features |-> K, boxes |-> K, scores |-> K, labels |-> K, masks |-> K]

\* Leading lengths in which one per-box array disagrees with the box count.
Skewed == {[Parallel(K) EXCEPT ![a] = m] :
              K \in 0..MaxDet, a \in ArrayNames, m \in 0..MaxDet} \ {Parallel(K) : K \in 0..MaxDet}

\* Outputs of the detector on a batch of k images: one group per image, with
\* parallel arrays; for a single image also the groups whose arrays disagree.
DetectorOutputs(k) ==
    {[v \in 1..k |-> Group(c, v, Parallel(Ks[v]))] : c \in Variants, Ks \in [1..k -> 0..MaxDet]}
    \cup (IF k = 1 THEN {<<Group(1, 1, len)>> : len \in Skewed} ELSE {})

Caps == -1..MaxCap

(***************************************************************************)
(* get_visual_features (eval.py lines 151-209).                            *)
(***************************************************************************)

NoResult == [returned |-> FALSE, value |-> <<>>, error |-> "none"]

GvfIdle ==
    /\ pc = "start"
    /\ calls = <<>>
    /\ geom_calls = <<>>
    /\ panorama_images = <<>>
    /\ camera_infos = <<>>
    /\ images = [packed |-> <<>>, device |-> "none"]
    /\ detector_results = <<>>
    /\ i = 0
    /\ object_features = <<>>
    /\ result = NoResult

SpawnIdle ==
    /\ spc = "idle"
    /\ args = [num_threads |-> 0, fast_epoch |-> FALSE, shuffle |-> FALSE]
    /\ files = <<>>
    /\ handles = 0
    /\ task_queue = [id |-> 0, items |-> <<>>]
    /\ lock = [id |-> 0, holder |-> 0]
    /\ threads = <<>>
    /\ n = 0
    /\ t = 0
    /\ worker = <<>>
    /\ stats = [successes |-> {}, failures |-> {}]
    /\ save_calls = 0

Init ==
    /\ panoramic_boxes \in BoundedSeq(Caps, MaxViews)
    /\ GvfIdle
    /\ SpawnIdle

\* Line 154: panorama_images, camera_infos = create_panorama(env, 0)
CreatePanorama ==
    /\ pc = "start"
    /\ \E k \in 1..MaxViews, profile \in {"uniform", "mixed"} :
          /\ panorama_images' = [v \in 1..k |-> <<"image", v - 1>>]
          /\ camera_infos' = CameraInfos(k, profile)
    /\ calls' = Append(calls, [op |-> "create_panorama", arg |-> <<"env", 0>>])
    /\ pc' = "captured"
    /\ UNCHANGED <<panoramic_boxes, geom_calls, images, detector_results, i,
                   object_features, result, spawn_vars>>

\* Line 156: images, sizes = image_loader(panorama_images, pack=True)
ImageLoader ==
    /\ pc = "captured"
    /\ images' = [packed |-> panorama_images, device |-> "host"]
    /\ calls' = Append(calls, [op |-> "image_loader", arg |-> panorama_images])
    /\ pc' = "loaded"
    /\ UNCHANGED <<panoramic_boxes, geom_calls, panorama_images, camera_infos,
                   detector_results, i, object_features, result, spawn_vars>>

\* Lines 160-164: images.to(cuda_device); detector_results = region_detector(images);
\* object_features = []
RegionDetector ==
    /\ pc = "loaded"
    /\ images' = [images EXCEPT !.device = "cuda_device"]
    /\ \E out \in DetectorOutputs(Len(images.packed)) : detector_results' = out
    /\ calls' = Append(calls, [op |-> "region_detector", arg |-> images.packed])
    /\ object_features' = <<>>
    /\ i' = 0
    /\ pc' = "assemble"
    /\ UNCHANGED <<panoramic_boxes, geom_calls, panorama_images, camera_infos,
                   result, spawn_vars>>

\* Mutant: the cap of the first view used for every view.
num_boxes_first == panoramic_boxes[1]

\* Line 167: num_boxes = args.panoramic_boxes[i]
num_boxes == panoramic_boxes[i + 1]

\* camera_infos[i] of lines 182-183 and 205
camera_info == camera_infos[i + 1]

\* The invocation of calculate_angles of lines 179-184, made only for a view
\* that has boxes.
GeomCall(det, cam) ==
    IF Len(det.boxes) > 0
    THEN LET c == center_coords(det.boxes)
         IN  << [view |-> i, xs |-> c[1], ys |-> c[2],
                 h_view_angle |-> cam.h_view_angle, v_view_angle |-> cam.v_view_angle] >>
    ELSE <<>>

\* Mutant: the detector run again for every view.
AssembleViewRedetect ==
    /\ pc = "assemble"
    /\ i < Len(detector_results)
    /\ i < Len(panoramic_boxes)
    /\ i < Len(camera_infos)
    /\ object_features' =
          Append(object_features, record(detector_results[i + 1], num_boxes, camera_info))
    /\ geom_calls' = geom_calls \o GeomCall(detector_results[i + 1], camera_info)
    /\ calls' = Append(calls, [op |-> "region_detector", arg |-> images.packed])
    /\ i' = i + 1
    /\ UNCHANGED <<panoramic_boxes, pc, panorama_images, camera_infos,
                   images, detector_results, result, spawn_vars>>

\* Lines 166-207: one iteration of the loop over the detector results.
AssembleView ==
    /\ pc = "assemble"
    /\ i < Len(detector_results)
    /\ i < Len(panoramic_boxes)
    /\ i < Len(camera_infos)
    /\ object_features' =
          Append(object_features, record(detector_results[i + 1], num_boxes, camera_info))
    /\ geom_calls' = geom_calls \o GeomCall(detector_results[i + 1], camera_info)
    /\ i' = i + 1
    /\ UNCHANGED <<panoramic_boxes, pc, calls, panorama_images, camera_infos,
                   images, detector_results, result, spawn_vars>>

\* Mutant: the failure swallowed and the records assembled so far returned.
IndexErrorPartial ==
    /\ pc = "assemble"
    /\ i < Len(detector_results)
    /\ (i >= Len(panoramic_boxes) \/ i >= Len(camera_infos))
    /\ result' = [returned |-> TRUE, value |-> object_features, error |-> "none"]
    /\ pc' = "returned"
    /\ UNCHANGED <<panoramic_boxes, calls, geom_calls, panorama_images, camera_infos,
                   images, detector_results, i, object_features, spawn_vars>>

\* Lines 167, 182, 205: indexing past the end of the cap table (or of the
\* camera infos) raises IndexError, which leaves get_visual_features.
IndexError ==
    /\ pc = "assemble"
    /\ i < Len(detector_results)
    /\ (i >= Len(panoramic_boxes) \/ i >= Len(camera_infos))
    /\ result' = [returned |-> FALSE, value |-> <<>>, error |-> "IndexError"]
    /\ pc' = "raised"
    /\ UNCHANGED <<panoramic_boxes, calls, geom_calls, panorama_images, camera_infos,
                   images, detector_results, i, object_features, spawn_vars>>

\* Line 209: return object_features
Return ==
    /\ pc = "assemble"
    /\ i = Len(detector_results)
    /\ result' = [returned |-> TRUE, value |-> object_features, error |-> "none"]
    /\ pc' = "returned"
    /\ UNCHANGED <<panoramic_boxes, calls, geom_calls, panorama_images, camera_infos,
                   images, detector_results, i, object_features, spawn_vars>>

Next ==
    \/ CreatePanorama
    \/ ImageLoader
    \/ RegionDetector
    \/ AssembleView
    \/ IndexError
    \/ Return

Spec == Init /\ [][Next]_vars

(***************************************************************************)
(* spawn_threads and queue_tasks (eval.py lines 72-110), with the workers  *)
(* that run cls.run.                                                       *)
(***************************************************************************)

\* Line 81: files[:16]
FastEpochFiles == 16

Shuffles(s) ==
    {[k \in DOMAIN s |-> s[f[k]]] : f \in {g \in [DOMAIN s -> DOMAIN s] :
                                              \A a, b \in DOMAIN s : a # b => g[a] # g[b]}}

InitSpawn ==
    /\ panoramic_boxes = <<>>
    /\ GvfIdle
    /\ spc = "start"
    /\ args \in [num_threads : 0..MaxThreads, fast_epoch : BOOLEAN, shuffle : BOOLEAN]
    /\ \E m \in 0..MaxFiles : files = [k \in 1..m |-> k]
    /\ handles = 0
    /\ task_queue = [id |-> 0, items |-> <<>>]
    /\ lock = [id |-> 0, holder |-> 0]
    /\ threads = <<>>
    /\ n = 0
    /\ t = 0
    /\ worker = <<>>
    /\ stats = [successes |-> {}, failures |-> {}]
    /\ save_calls = 0

\* Lines 93 and 72-87: task_queue = self.queue_tasks().  The slice of line 81
\* makes a new list, so the shuffle of line 84 reorders the list of the split
\* itself only when fast_epoch is off.
QueueTasks ==
    /\ spc = "start"
    /\ LET cut == IF args.fast_epoch THEN Slice(files, FastEpochFiles) ELSE files
       IN  \E order \in (IF args.shuffle THEN Shuffles(cut) ELSE {cut}) :
              /\ task_queue' = [id |-> handles + 1, items |-> order]
              /\ files' = IF args.fast_epoch THEN files ELSE order
    /\ handles' = handles + 1
    /\ spc' = "lock"
    /\ UNCHANGED <<gvf_vars, args, lock, threads, n, t, worker, stats, save_calls>>

\* Lines 95-97: threads = []; lock = self.manager.Lock(); the branch on num_threads
CreateLock ==
    /\ spc = "lock"
    /\ lock' = [id |-> handles + 1, holder |-> 0]
    /\ handles' = handles + 1
    /\ threads' = <<>>
    /\ n' = 0
    /\ t' = 0
    /\ spc' = IF args.num_threads = 1 THEN "call_run"
              ELSE IF args.num_threads > 0 THEN "start_threads" ELSE "join"
    /\ UNCHANGED <<gvf_vars, args, files, task_queue, worker, stats, save_calls>>

NewWorker(inline) ==
    [state |-> "idle", inline |-> inline, queue |-> task_queue.id, lock |-> lock.id,
     task |-> 0, outcome |-> "none", exit |-> "none"]

\* Line 98: self.run(...) in the calling process
RunInline ==
    /\ spc = "call_run"
    /\ worker' = <<NewWorker(TRUE)>>
    /\ spc' = "in_run"
    /\ UNCHANGED <<gvf_vars, args, files, handles, task_queue, lock, threads, n, t,
                   stats, save_calls>>

\* Line 98: the call returns
RunReturns ==
    /\ spc = "in_run"
    /\ worker[1].state = "done"
    /\ worker[1].exit = "returned"
    /\ spc' = "save"
    /\ UNCHANGED <<gvf_vars, args, files, handles, task_queue, lock, threads, n, t,
                   worker, stats, save_calls>>

\* Line 98: an exception of run leaves spawn_threads
RunRaises ==
    /\ spc = "in_run"
    /\ worker[1].state = "done"
    /\ worker[1].exit = "raised"
    /\ spc' = "raised"
    /\ UNCHANGED <<gvf_vars, args, files, handles, task_queue, lock, threads, n, t,
                   worker, stats, save_calls>>

\* Lines 100-104: one iteration of the loop that starts the processes
StartThread ==
    /\ spc = "start_threads"
    /\ n < args.num_threads
    /\ worker' = Append(worker, NewWorker(FALSE))
    /\ threads' = Append(threads, Len(worker) + 1)
    /\ n' = n + 1
    /\ spc' = IF n + 1 < args.num_threads THEN "start_threads" ELSE "join"
    /\ UNCHANGED <<gvf_vars, args, files, handles, task_queue, lock, t, stats, save_calls>>

\* Lines 106-107: t.join() returns once that process has ended
JoinThread ==
    /\ spc = "join"
    /\ t < Len(threads)
    /\ worker[threads[t + 1]].state = "done"
    /\ t' = t + 1
    /\ UNCHANGED <<gvf_vars, spc, args, files, handles, task_queue, lock, threads, n,
                   worker, stats, save_calls>>

\* Mutant: the results saved without waiting for the joins.
SaveResultsUnjoined ==
    /\ spc \in {"join", "save"}
    /\ save_calls' = save_calls + 1
    /\ spc' = "done"
    /\ UNCHANGED <<gvf_vars, args, files, handles, task_queue, lock, threads, n, t,
                   worker, stats>>

\* Line 110: self.save_results()
SaveResults ==
    /\ \/ spc = "join" /\ t = Len(threads)
       \/ spc = "save"
    /\ save_calls' = save_calls + 1
    /\ spc' = "done"
    /\ UNCHANGED <<gvf_vars, args, files, handles, task_queue, lock, threads, n, t,
                   worker, stats>>

\* ---- cls.run, the body of a worker ----

\* The worker takes the next trajectory of its queue.
WorkerTake(w) ==
    /\ worker[w].state = "idle"
    /\ worker[w].queue = task_queue.id
    /\ task_queue.items # <<>>
    /\ worker' = [worker EXCEPT ![w].state = "task", ![w].task = Head(task_queue.items)]
    /\ task_queue' = [task_queue EXCEPT !.items = Tail(@)]
    /\ UNCHANGED <<gvf_vars, spc, args, files, handles, lock, threads, n, t, stats,
                   save_calls>>

\* The trajectory is evaluated and the worker acquires the lock to record it.
WorkerEvaluate(w) ==
    /\ worker[w].state = "task"
    /\ worker[w].lock = lock.id
    /\ lock.holder = 0
    /\ \E outcome \in {"success", "failure"} :
          worker' = [worker EXCEPT ![w].state = "locked", ![w].outcome = outcome]
    /\ lock' = [lock EXCEPT !.holder = w]
    /\ UNCHANGED <<gvf_vars, spc, args, files, handles, task_queue, threads, n, t, stats,
                   save_calls>>

\* The outcome is recorded under the lock, which is then released.
WorkerRecord(w) ==
    /\ worker[w].state = "locked"
    /\ lock.holder = w
    /\ stats' = IF worker[w].outcome = "success"
                THEN [stats EXCEPT !.successes = @ \cup {worker[w].task}]
                ELSE [stats EXCEPT !.failures = @ \cup {worker[w].task}]
    /\ lock' = [lock EXCEPT !.holder = 0]
    /\ worker' = [worker EXCEPT ![w].state = "idle", ![w].task = 0, ![w].outcome = "none"]
    /\ UNCHANGED <<gvf_vars, spc, args, files, handles, task_queue, threads, n, t,
                   save_calls>>

\* The queue is empty: run returns.
WorkerReturn(w) ==
    /\ worker[w].state = "idle"
    /\ task_queue.items = <<>>
    /\ worker' = [worker EXCEPT ![w].state = "done", ![w].exit = "returned"]
    /\ UNCHANGED <<gvf_vars, spc, args, files, handles, task_queue, lock, threads, n, t,
                   stats, save_calls>>

\* Lines 137-138: run raises (the NotImplementedError of the base class, or an
\* exception that escapes an implementation).
WorkerRaise(w) ==
    /\ worker[w].state \in {"idle", "task"}
    /\ worker' = [worker EXCEPT ![w].state = "done", ![w].exit = "raised"]
    /\ UNCHANGED <<gvf_vars, spc, args, files, handles, task_queue, lock, threads, n, t,
                   stats, save_calls>>

NextSpawn ==
    \/ QueueTasks
    \/ CreateLock
    \/ RunInline
    \/ RunReturns
    \/ RunRaises
    \/ StartThread
    \/ JoinThread
    \/ SaveResults
    \/ \E w \in DOMAIN worker : WorkerTake(w)
    \/ \E w \in DOMAIN worker : WorkerEvaluate(w)
    \/ \E w \in DOMAIN worker : WorkerRecord(w)
    \/ \E w \in DOMAIN worker : WorkerReturn(w)
    \/ \E w \in DOMAIN worker : WorkerRaise(w)

SpecSpawn == InitSpawn /\ [][NextSpawn]_vars

Running(w) == worker[w].state # "done"

\* C10: save_results is invoked at most once, and only when no worker is
\* still running: with num_threads = 1 after the in-process run returned,
\* with num_threads = N > 1 after N processes were started, each with the one
\* task queue and the one lock, and all N were joined; a completed
\* spawn_threads has invoked it exactly once.
C10_SaveAfterWorkers ==
    /\ save_calls <= 1
    /\ spc = "done" <=> save_calls = 1
    /\ save_calls = 1 =>
          /\ \A w \in DOMAIN worker : ~Running(w)
          /\ args.num_threads = 1 =>
                /\ Len(worker) = 1
                /\ worker[1].inline
                /\ worker[1].exit = "returned"
          /\ args.num_threads > 1 =>
                /\ Len(worker) = args.num_threads
                /\ Len(threads) = args.num_threads
                /\ t = args.num_threads
    /\ \A w \in DOMAIN worker :
          /\ worker[w].queue = task_queue.id
          /\ worker[w].lock = lock.id
          /\ worker[w].inline <=> args.num_threads = 1
    /\ \A k \in 1..t : ~Running(threads[k])
    /\ task_queue.id # lock.id \/ handles = 0

\* Several processes shared the queue, two of them recorded a trajectory, and
\* the results were saved after the last join.
C10_Witness ==
    /\ spc = "done"
    /\ save_calls = 1
    /\ args.num_threads >= 2
    /\ t = args.num_threads
    /\ Cardinality(stats.successes \cup stats.failures) >= 2
    /\ \E w \in DOMAIN worker : worker[w].exit = "raised"

(***************************************************************************)
(* Properties of get_visual_features.                                      *)
(***************************************************************************)

\* The per-box arrays of a detection group are parallel.
WellFormed(det) ==
    /\ Len(det.features) = Len(det.boxes)
    /\ Len(det.scores) = Len(det.boxes)
    /\ Len(det.labels) = Len(det.boxes)
    /\ Len(det.masks) = Len(det.boxes)

SixLengths(r) ==
    { Len(r.box_features), Len(r.roi_angles.rows), Len(r.boxes),
      Len(r.masks), Len(r.class_probs), Len(r.class_labels) }

ExpectedKept(K, C) == IF K <= C THEN K ELSE C

\* C1: for every assembled view with K parallel raw detections and cap C >= 0,
\* each of the six per-object arrays of its record has min(K, C) entries and
\* num_objects is that value, so it exceeds neither C nor K.
C1_KeptCount ==
    \A v \in 1..Len(object_features) :
        LET det == detector_results[v]
            K == Len(det.boxes)
            C == panoramic_boxes[v]
            r == object_features[v]
        IN  (WellFormed(det) /\ C >= 0) =>
                /\ SixLengths(r) = {ExpectedKept(K, C)}
                /\ r.num_objects = ExpectedKept(K, C)
                /\ r.num_objects <= C
                /\ r.num_objects <= K

\* A returned panorama in which a view was truncated and one in which the cap
\* was not reached.
C1_Witness ==
    /\ result.returned
    /\ \E v \in 1..Len(result.value) :
          /\ WellFormed(detector_results[v])
          /\ Len(detector_results[v].boxes) > panoramic_boxes[v]
          /\ panoramic_boxes[v] >= 1
          /\ result.value[v].num_objects = panoramic_boxes[v]
    /\ \E v \in 1..Len(result.value) :
          /\ WellFormed(detector_results[v])
          /\ Len(detector_results[v].boxes) < panoramic_boxes[v]

\* The angle pair of one box under one camera info.
AnglesOfBox(box, cam) ==
    << [axis |-> "h", center |-> center(box[1], box[3]), view_angle |-> cam.h_view_angle],
       [axis |-> "v", center |-> center(box[2], box[4]), view_angle |-> cam.v_view_angle] >>

\* C2: when a view has K > C >= 0 parallel detections, the j-th kept entry of
\* every per-object array comes from the j-th detection in detector order, so
\* the kept objects are the first C detections whatever their scores.
C2_OrderPreserved ==
    \A v \in 1..Len(object_features) :
        LET det == detector_results[v]
            C == panoramic_boxes[v]
            r == object_features[v]
        IN  (WellFormed(det) /\ C >= 0 /\ Len(det.boxes) > C) =>
                /\ r.num_objects = C
                /\ \A j \in 1..C :
                      /\ r.box_features[j] = det.features[j]
                      /\ r.boxes[j] = det.boxes[j]
                      /\ r.class_probs[j] = det.scores[j]
                      /\ r.class_labels[j] = det.labels[j]
                      /\ \A p \in DOMAIN det.masks[j] :
                            r.masks[j][p] = (det.masks[j][p] > 5)
                      /\ r.roi_angles.rows[j] = AnglesOfBox(det.boxes[j], camera_infos[v])

\* A truncated view whose detections arrive by ascending score: the kept ones
\* are not the most confident ones.
C2_Witness ==
    /\ result.returned
    /\ \E v \in 1..Len(result.value) :
          LET det == detector_results[v]
          IN  /\ WellFormed(det)
              /\ panoramic_boxes[v] >= 1
              /\ Len(det.boxes) > panoramic_boxes[v]
              /\ det.scores[1] < det.scores[Len(det.scores)]
              /\ result.value[v].class_probs[1] = det.scores[1]

Empty(det) ==
    /\ Len(det.boxes) = 0
    /\ WellFormed(det)

\* C3: a view without detections still gets a record, whatever its cap: the
\* six per-object arrays are empty, the angles array is empty with 2 columns,
\* num_objects is 0, and the returned sequence holds a record for the view.
C3_EmptyView ==
    /\ \A v \in 1..Len(object_features) :
          LET r == object_features[v]
          IN  Empty(detector_results[v]) =>
                 /\ SixLengths(r) = {0}
                 /\ r.roi_angles = [ncols |-> 2, rows |-> <<>>]
                 /\ r.num_objects = 0
                 /\ r.camera_info = camera_infos[v]
    /\ result.returned =>
          \A v \in 1..Len(detector_results) :
              Empty(detector_results[v]) =>
                  /\ v \in DOMAIN result.value
                  /\ result.value[v].num_objects = 0

\* A returned panorama with an empty view under a negative cap and an empty
\* view under a positive one.
C3_Witness ==
    /\ result.returned
    /\ \E v \in 1..Len(result.value) :
          Empty(detector_results[v]) /\ panoramic_boxes[v] < 0
    /\ \E v \in 1..Len(result.value) :
          Empty(detector_results[v]) /\ panoramic_boxes[v] > 0

\* C4: a view whose per-box arrays disagree in length with its box count is
\* never assembled into a record (the call fails instead), and no returned
\* record has per-object arrays of differing lengths.
C4_ShapeMismatchRaises ==
    /\ \A v \in 1..Len(object_features) : WellFormed(detector_results[v])
    /\ result.returned =>
          \A v \in 1..Len(result.value) : Cardinality(SixLengths(result.value[v])) = 1

CallOrder == <<"create_panorama", "image_loader", "region_detector">>

\* C5: the collaborators are invoked in the order capture, preprocess, detect,
\* each at most once, the loader on the whole panorama and the detector on the
\* packed batch; records are assembled only after the detector ran; what is
\* returned has one record per detector result, in view order.
C5_CallOrder ==
    /\ Len(calls) <= Len(CallOrder)
    /\ \A k \in DOMAIN calls : calls[k].op = CallOrder[k]
    /\ Len(calls) >= 2 => calls[2].arg = panorama_images
    /\ Len(calls) >= 3 => calls[3].arg = calls[2].arg
    /\ (object_features # <<>> \/ geom_calls # <<>>) => Len(calls) = 3
    /\ result.returned =>
          /\ Len(calls) = 3
          /\ Len(result.value) = Len(detector_results)
          /\ Len(result.value) = Len(panorama_images)
          /\ \A v \in 1..Len(result.value) :
                /\ result.value[v].camera_info.view = v - 1
                /\ \A j \in DOMAIN result.value[v].box_features :
                      result.value[v].box_features[j] = detector_results[v].features[j]

\* A returned panorama of several views.
C5_Witness ==
    /\ result.returned
    /\ Len(result.value) >= 2
    /\ \A v \in 1..Len(result.value) : result.value[v].num_objects >= 1

\* C6: the record of view i is built from detector_results[i], the cap at
\* position i of the cap table and camera_infos[i] alone.
C6_ViewLocal ==
    \A v \in 1..Len(object_features) :
        LET det == detector_results[v]
            C == panoramic_boxes[v]
            cam == camera_infos[v]
            r == object_features[v]
        IN  /\ r.camera_info = cam
            /\ r.camera_info.view = v - 1
            /\ r.num_objects = Len(Slice(det.features, C))
            /\ r.box_features = Slice(det.features, C)
            /\ r.boxes = Slice(det.boxes, C)
            /\ r.class_probs = Slice(det.scores, C)
            /\ r.class_labels = Slice(det.labels, C)
            /\ Len(r.masks) = Len(Slice(det.masks, C))
            /\ \A j \in DOMAIN r.box_features : r.box_features[j][2] = v - 1
            /\ \A j \in DOMAIN r.class_labels : r.class_labels[j][2] = v - 1
            /\ \A j \in DOMAIN r.roi_angles.rows :
                  r.roi_angles.rows[j] = AnglesOfBox(det.boxes[j], cam)

\* Two views that differ in cap, field of view and number of kept objects.
C6_Witness ==
    /\ result.returned
    /\ Len(result.value) >= 2
    /\ panoramic_boxes[1] # panoramic_boxes[2]
    /\ camera_infos[1].h_view_angle # camera_infos[2].h_view_angle
    /\ result.value[2].num_objects >= 1
    /\ result.value[1].num_objects > result.value[2].num_objects

OpCount(op) == Cardinality({k \in DOMAIN calls : calls[k].op = op})

\* C7: when assembling a view fails, the failure reaches the caller, nothing
\* is returned (not even the records assembled before), and no collaborator
\* is invoked a second time; a returned sequence is never partial.
C7_NoPartialResult ==
    /\ pc = "raised" =>
          /\ ~result.returned
          /\ result.value = <<>>
          /\ result.error = "IndexError"
          /\ i < Len(detector_results)
    /\ result.returned =>
          /\ pc = "returned"
          /\ result.error = "none"
          /\ Len(result.value) = Len(detector_results)
          /\ Len(panoramic_boxes) >= Len(detector_results)
    /\ \A op \in {CallOrder[k] : k \in DOMAIN CallOrder} : OpCount(op) <= 1

\* The failure of a later view after an earlier one was assembled.
C7_Witness ==
    /\ pc = "raised"
    /\ Len(object_features) >= 1
    /\ object_features[1].num_objects >= 1
    /\ ~result.returned

\* c is the floor of s / 4 (s a sum of two coordinates in half pixels).
IsFloorOfMidpoint(c, s) == 4 * c <= s /\ s < 4 * c + 4

\* C8: for every assembled view with K >= 1 boxes calculate_angles is invoked
\* once, with the K centers (floor((x1+x2)/2), floor((y1+y2)/2)) of all its
\* boxes, computed before truncation; the box (1, 1, 2, 2) has center (1, 1);
\* the angles of the record have 2 columns.
C8_FloorCenters ==
    /\ Len(geom_calls) =
          Cardinality({v \in 1..Len(object_features) : Len(detector_results[v].boxes) > 0})
    /\ \A g \in DOMAIN geom_calls :
          LET call == geom_calls[g]
              det == detector_results[call.view + 1]
              K == Len(det.boxes)
              r == object_features[call.view + 1]
          IN  /\ K > 0
              /\ Len(call.xs) = K
              /\ Len(call.ys) = K
              /\ \A j \in 1..K :
                    /\ IsFloorOfMidpoint(call.xs[j], det.boxes[j][1] + det.boxes[j][3])
                    /\ IsFloorOfMidpoint(call.ys[j], det.boxes[j][2] + det.boxes[j][4])
                    /\ det.boxes[j] = <<2, 2, 4, 4>> => (call.xs[j] = 1 /\ call.ys[j] = 1)
              /\ r.roi_angles.ncols = 2
              /\ \A j \in DOMAIN r.roi_angles.rows :
                    /\ r.roi_angles.rows[j][1].center = call.xs[j]
                    /\ r.roi_angles.rows[j][2].center = call.ys[j]
    /\ \A g, h \in DOMAIN geom_calls : g < h => geom_calls[g].view < geom_calls[h].view

\* The center of the box (1, 1, 2, 2) computed for a detection that the cap
\* then drops.
C8_Witness ==
    \E g \in DOMAIN geom_calls :
        LET call == geom_calls[g]
            det == detector_results[call.view + 1]
            C == panoramic_boxes[call.view + 1]
        IN  /\ C >= 0
            /\ \E j \in 1..Len(det.boxes) :
                  /\ j > C
                  /\ det.boxes[j] = <<2, 2, 4, 4>>
                  /\ call.xs[j] = 1
                  /\ call.ys[j] = 1

\* C9: every value of a kept binarized mask is true exactly when the raw
\* value is greater than 0.5; the raw value 0.5 gives false.
C9_MaskThreshold ==
    \A v \in 1..Len(object_features) :
        LET det == detector_results[v]
            r == object_features[v]
        IN  /\ Len(r.masks) <= Len(det.masks)
            /\ \A j \in DOMAIN r.masks :
                  /\ DOMAIN r.masks[j] = DOMAIN det.masks[j]
                  /\ \A p \in DOMAIN r.masks[j] :
                        /\ det.masks[j][p] >= 6 => r.masks[j][p] = TRUE
                        /\ det.masks[j][p] <= 5 => r.masks[j][p] = FALSE

\* A kept mask holding the boundary value 0.5 next to a value above it.
C9_Witness ==
    \E v \in 1..Len(object_features) :
        \E j \in DOMAIN object_features[v].masks :
            /\ detector_results[v].masks[j] = <<5, 6>>
            /\ object_features[v].masks[j] = <<FALSE, TRUE>>

====
